---- MODULE Spec2Model ----
(***************************************************************************)
(* ReportDataService (backend/app/services/report_data_service.py): the    *)
(* aggregation of a report, its project, client and findings into the      *)
(* ReportContext handed to the PDF and DOCX engines.                       *)
(*                                                                         *)
(* Strings are sequences of one-character strings.  None and the empty     *)
(* string are both written <<>>: every test the service makes on an        *)
(* optional string is a truthiness test (if x:, x or y), which does not    *)
(* tell them apart.                                                        *)
(***************************************************************************)
EXTENDS Integers, Sequences, FiniteSets, TLC

----------------------------------------------------------------------------
(* Bounds of the model. *)

\* Longest list of findings of one project whose severities are enumerated.
MaxFindings == 3

\* Longest stored scope / compliance text, counted in pieces of PieceSet.
MaxPieces == 3

\* Size of the large finding sets, in which one finding among HIGH ones
\* moves the risk score by less than the rounding step.
ManyFindings == 601

----------------------------------------------------------------------------
(* Python str methods used by the service. *)

None == <<>>

LowerLetters ==
  <<"a","b","c","d","e","f","g","h","i","j","k","l","m",
    "n","o","p","q","r","s","t","u","v","w","x","y","z">>

UpperLetters ==
  <<"A","B","C","D","E","F","G","H","I","J","K","L","M",
    "N","O","P","Q","R","S","T","U","V","W","X","Y","Z">>

\* one character of str.upper()
UpperChar(c) ==
  IF \E i \in 1..Len(LowerLetters) : LowerLetters[i] = c
  THEN UpperLetters[CHOOSE i \in 1..Len(LowerLetters) : LowerLetters[i] = c]
  ELSE c

\* one character of str.lower()
LowerChar(c) ==
  IF \E i \in 1..Len(UpperLetters) : UpperLetters[i] = c
  THEN LowerLetters[CHOOSE i \in 1..Len(UpperLetters) : UpperLetters[i] = c]
  ELSE c

\* s.upper()
Upper(s) == [k \in 1..Len(s) |-> UpperChar(s[k])]

\* s.lower()
Lower(s) == [k \in 1..Len(s) |-> LowerChar(s[k])]

\* the characters str.strip() removes and json treats as insignificant
IsWhitespace(c) == c \in {" ", "\n", "\t", "\r"}

\* s.startswith(p)
StartsWith(s, p) == Len(s) >= Len(p) /\ SubSeq(s, 1, Len(p)) = p

\* s.replace(a, b) for single characters a and b
Replace(s, a, b) == [k \in 1..Len(s) |-> IF s[k] = a THEN b ELSE s[k]]

\* s.strip()
Strip(s) ==
  LET keep == {k \in 1..Len(s) : ~IsWhitespace(s[k])}
  IN  IF keep = {} THEN <<>>
      ELSE LET lo == CHOOSE k \in keep : \A j \in keep : k <= j
               hi == CHOOSE k \in keep : \A j \in keep : k >= j
           IN  SubSeq(s, lo, hi)

\* s.rstrip('/')
RStripSlash(s) ==
  LET keep == {k \in 1..Len(s) : s[k] # "/"}
  IN  IF keep = {} THEN <<>>
      ELSE SubSeq(s, 1, CHOOSE k \in keep : \A j \in keep : k >= j)

\* s.split(d) for a single character d: "".split(",") is [""]
RECURSIVE Split(_, _)
Split(s, d) ==
  LET at == {k \in 1..Len(s) : s[k] = d}
  IN  IF at = {} THEN <<s>>
      ELSE LET k == CHOOSE x \in at : \A y \in at : x <= y
           IN  <<SubSeq(s, 1, k - 1)>> \o Split(SubSeq(s, k + 1, Len(s)), d)

\* [x.strip() for x in parts if x.strip()]
RECURSIVE StripNonEmpty(_)
StripNonEmpty(parts) ==
  IF parts = <<>> THEN <<>>
  ELSE LET t == Strip(Head(parts))
       IN  (IF t = <<>> THEN <<>> ELSE <<t>>) \o StripNonEmpty(Tail(parts))

----------------------------------------------------------------------------
(* json.loads.  A decoded value is a record [type, items, text]:           *)
(*   null, true, false   type only                                          *)
(*   num                 text = its digits                                  *)
(*   str                 text = its characters                              *)
(*   list                items = the decoded elements                       *)
(*   obj                 items = the members, each [key, val]               *)
(* Decoded are the JSON texts made of whitespace, the three literals,      *)
(* unsigned integers, strings without escapes, arrays and objects; the     *)
(* inputs of the model are drawn from texts in which nothing else occurs.  *)

JNull == [type |-> "null", items |-> <<>>, text |-> <<>>]
JTrue == [type |-> "true", items |-> <<>>, text |-> <<>>]
JFalse == [type |-> "false", items |-> <<>>, text |-> <<>>]
JNum(digits) == [type |-> "num", items |-> <<>>, text |-> digits]
JStr(chars) == [type |-> "str", items |-> <<>>, text |-> chars]
JList(elems) == [type |-> "list", items |-> elems, text |-> <<>>]
JObj(members) == [type |-> "obj", items |-> members, text |-> <<>>]

Digits == {"0","1","2","3","4","5","6","7","8","9"}

\* the result of a failed scan (json.JSONDecodeError)
NoParse == [ok |-> FALSE, val |-> JNull, pos |-> 0]

Parsed(v, p) == [ok |-> TRUE, val |-> v, pos |-> p]

\* the index of the first non-whitespace character at or after i
RECURSIVE SkipWs(_, _)
SkipWs(s, i) ==
  IF i <= Len(s) /\ IsWhitespace(s[i]) THEN SkipWs(s, i + 1) ELSE i

\* a string starting at the quote s[i]; control characters end the scan
ScanString(s, i) ==
  LET close == {j \in (i + 1)..Len(s) : s[j] = "\""}
  IN  IF close = {} THEN NoParse
      ELSE LET j == CHOOSE x \in close : \A y \in close : x <= y
           IN  IF \E k \in (i + 1)..(j - 1) : s[k] \in {"\n", "\t", "\r"}
               THEN NoParse
               ELSE Parsed(JStr(SubSeq(s, i + 1, j - 1)), j + 1)

\* an unsigned integer starting at the digit s[i]: 0, or no leading zero
ScanNumber(s, i) ==
  LET stop == {j \in (i + 1)..(Len(s) + 1) : j = Len(s) + 1 \/ s[j] \notin Digits}
      e == IF s[i] = "0" THEN i + 1
           ELSE CHOOSE x \in stop : \A y \in stop : x <= y
  IN  Parsed(JNum(SubSeq(s, i, e - 1)), e)

\* a literal such as null starting at s[i]
ScanLiteral(s, i, word, v) ==
  IF i + Len(word) - 1 <= Len(s) /\ SubSeq(s, i, i + Len(word) - 1) = word
  THEN Parsed(v, i + Len(word))
  ELSE NoParse

RECURSIVE ScanValue(_, _), ScanArray(_, _, _), ScanObject(_, _, _)

\* scan_once: the value starting exactly at s[i]
ScanValue(s, i) ==
  IF i > Len(s) THEN NoParse
  ELSE IF s[i] = "\"" THEN ScanString(s, i)
  ELSE IF s[i] = "[" THEN
    LET j == SkipWs(s, i + 1)
    IN  IF j <= Len(s) /\ s[j] = "]" THEN Parsed(JList(<<>>), j + 1)
        ELSE ScanArray(s, j, <<>>)
  ELSE IF s[i] = "{" THEN
    LET j == SkipWs(s, i + 1)
    IN  IF j <= Len(s) /\ s[j] = "}" THEN Parsed(JObj(<<>>), j + 1)
        ELSE ScanObject(s, j, <<>>)
  ELSE IF s[i] = "n" THEN ScanLiteral(s, i, <<"n","u","l","l">>, JNull)
  ELSE IF s[i] = "t" THEN ScanLiteral(s, i, <<"t","r","u","e">>, JTrue)
  ELSE IF s[i] = "f" THEN ScanLiteral(s, i, <<"f","a","l","s","e">>, JFalse)
  ELSE IF s[i] \in Digits THEN ScanNumber(s, i)
  ELSE NoParse

\* JSONArray after the first element position: value (, value)* ]
ScanArray(s, i, acc) ==
  LET r == ScanValue(s, i)
  IN  IF ~r.ok THEN NoParse
      ELSE LET j == SkipWs(s, r.pos)
               got == Append(acc, r.val)
           IN  IF j > Len(s) THEN NoParse
               ELSE IF s[j] = "]" THEN Parsed(JList(got), j + 1)
               ELSE IF s[j] = "," THEN ScanArray(s, SkipWs(s, j + 1), got)
               ELSE NoParse

\* JSONObject after the opening brace: "key" : value (, "key" : value)* }
ScanObject(s, i, acc) ==
  IF i > Len(s) \/ s[i] # "\"" THEN NoParse
  ELSE LET k == ScanString(s, i)
       IN  IF ~k.ok THEN NoParse
           ELSE LET c == SkipWs(s, k.pos)
                IN  IF c > Len(s) \/ s[c] # ":" THEN NoParse
                    ELSE LET r == ScanValue(s, SkipWs(s, c + 1))
                         IN  IF ~r.ok THEN NoParse
                             ELSE LET j == SkipWs(s, r.pos)
                                      got == Append(acc, [key |-> k.val.text, val |-> r.val])
                                  IN  IF j > Len(s) THEN NoParse
                                      ELSE IF s[j] = "}" THEN Parsed(JObj(got), j + 1)
                                      ELSE IF s[j] = "," THEN ScanObject(s, SkipWs(s, j + 1), got)
                                      ELSE NoParse

\* json.loads(s): ok = FALSE stands for json.JSONDecodeError
JsonLoads(s) ==
  LET r == ScanValue(s, SkipWs(s, 1))
  IN  IF r.ok /\ SkipWs(s, r.pos) = Len(s) + 1 THEN r ELSE NoParse

\* bool(v) of a decoded value
Truthy(v) ==
  CASE v.type \in {"null", "false"} -> FALSE
    [] v.type = "true" -> TRUE
    [] v.type = "num" -> \E k \in 1..Len(v.text) : v.text[k] # "0"
    [] v.type = "str" -> v.text # <<>>
    [] OTHER -> v.items # <<>>

\* len(v) is defined for str, list and dict; it raises TypeError otherwise
HasLen(v) == v.type \in {"str", "list", "obj"}

LenOf(v) == IF v.type = "str" THEN Len(v.text) ELSE Len(v.items)

----------------------------------------------------------------------------
(* Severity names, as the service spells them. *)

CRITICAL == <<"C","R","I","T","I","C","A","L">>
HIGH == <<"H","I","G","H">>
MEDIUM == <<"M","E","D","I","U","M">>
LOW == <<"L","O","W">>
INFO == <<"I","N","F","O">>
INFORMATIONAL == <<"I","N","F","O","R","M","A","T","I","O","N","A","L">>

\* the keys of counts in _calculate_stats
CountKeys == {CRITICAL, HIGH, MEDIUM, LOW, INFO}

critical == <<"c","r","i","t","i","c","a","l">>
high == <<"h","i","g","h">>
medium == <<"m","e","d","i","u","m">>
low == <<"l","o","w">>
info == <<"i","n","f","o">>
informational == <<"i","n","f","o","r","m","a","t","i","o","n","a","l">>

\* the keys of grouped in _group_findings_by_severity
GroupKeys == {critical, high, medium, low, info}

\* severity_rank.get((x.severity or "").upper(), 99)
severity_rank(severity) ==
  LET key == Upper(severity)
  IN  CASE key = CRITICAL -> 1
        [] key = HIGH -> 2
        [] key = MEDIUM -> 3
        [] key = LOW -> 4
        [] key = INFO -> 5
        [] OTHER -> 99

\* SEVERITY_WEIGHTS with the weight of MEDIUM mistyped
SEVERITY_WEIGHTS_medium_five(sev) ==
  CASE sev = CRITICAL -> 10
    [] sev = HIGH -> 7
    [] sev = MEDIUM -> 5
    [] sev = LOW -> 1
    [] OTHER -> 0

\* SEVERITY_WEIGHTS.get(sev, 0)
SEVERITY_WEIGHTS(sev) ==
  CASE sev = CRITICAL -> 10
    [] sev = HIGH -> 7
    [] sev = MEDIUM -> 4
    [] sev = LOW -> 1
    [] sev = INFO -> 0
    [] sev = INFORMATIONAL -> 0
    [] OTHER -> 0

\* sort_findings with ties taken in reverse: an element goes before the
\* elements of its own key already placed
sort_findings_unstable(findings) ==
  LET Before(a, b) == severity_rank(a.severity) < severity_rank(b.severity)
      F[k \in 0..Len(findings)] ==
        IF k = 0 THEN <<>>
        ELSE LET f == findings[k]
                 n == Cardinality({i \in 1..Len(F[k - 1]) : Before(F[k - 1][i], f)})
             IN  SubSeq(F[k - 1], 1, n) \o <<f>> \o SubSeq(F[k - 1], n + 1, Len(F[k - 1]))
  IN  F[Len(findings)]

\* the ranks the key function yields, in increasing order
SeverityRanks == <<1, 2, 3, 4, 5, 99>>

\* findings.sort(key=lambda x: severity_rank.get((x.severity or "").upper(), 99))
\* list.sort is stable: the result lists, rank by rank in increasing order,
\* the elements of that rank in the order they had
sort_findings(findings) ==
  LET OfRank(r) == SelectSeq(findings, LAMBDA f : severity_rank(f.severity) = r)
      F[k \in 0..Len(SeverityRanks)] ==
        IF k = 0 THEN <<>> ELSE F[k - 1] \o OfRank(SeverityRanks[k])
  IN  F[Len(SeverityRanks)]

----------------------------------------------------------------------------
(* RichTextService is a collaborator outside this service: a rendering is  *)
(* kept as a term [fn, arg, items] over the value rendered.  The literal   *)
(* "" and the <ul> list the service builds itself are terms of the same    *)
(* shape.                                                                  *)

to_html(v) == [fn |-> "to_html", arg |-> v, items |-> <<>>]
to_plain(v) == [fn |-> "to_plain", arg |-> v, items |-> <<>>]
sanitize_html(v) == [fn |-> "sanitize_html", arg |-> v, items |-> <<>>]

\* the empty rendering ""
EmptyText == [fn |-> "literal", arg |-> JStr(<<>>), items |-> <<>>]

\* d.get(name, default) on a decoded object; the last member of a name wins
dict_get(o, name, default) ==
  IF \E k \in 1..Len(o.items) : o.items[k].key = name
  THEN o.items[CHOOSE k \in 1..Len(o.items) :
                 /\ o.items[k].key = name
                 /\ \A j \in (k + 1)..Len(o.items) : o.items[j].key # name].val
  ELSE default

----------------------------------------------------------------------------
(* _build_project_context: the two list-valued fields. *)

\* the value bound by a legacy split: a list of str
StrList(parts) == JList([k \in 1..Len(parts) |-> JStr(parts[k])])

\* scope: decoded JSON when the text decodes, else the legacy split on
\* newlines and commas
parse_scope(raw) ==
  IF raw = <<>> THEN JList(<<>>)
  ELSE LET r == JsonLoads(raw)
       IN  IF r.ok THEN r.val
           ELSE StrList(StripNonEmpty(Split(Replace(raw, "\n", ","), ",")))

\* compliance frameworks: decoded JSON when the text decodes, else the
\* legacy split on commas
parse_compliance(raw) ==
  IF raw = <<>> THEN JList(<<>>)
  ELSE LET r == JsonLoads(raw)
       IN  IF r.ok THEN r.val
           ELSE StrList(StripNonEmpty(Split(raw, ",")))

build_project_context(project) ==
  [ scope |-> parse_scope(project.scope),
    compliance_frameworks |-> parse_compliance(project.complianceFrameworks),
    description_html |-> to_html(JStr(project.description)),
    description_plain |-> to_plain(JStr(project.description)) ]

----------------------------------------------------------------------------
(* _build_finding_context *)

\* one <li> of the affected-assets list: [strong, rest] for a dict with a
\* url, the element itself for a str; other elements add nothing
AssetItems(elems) ==
  LET Item(a) ==
        IF a.type = "obj" THEN
          LET url == dict_get(a, <<"u","r","l">>, JStr(<<>>))
              description == dict_get(a, <<"d","e","s","c","r","i","p","t","i","o","n">>, JStr(<<>>))
          IN  IF ~Truthy(url) THEN <<>>
              ELSE IF Truthy(description)
                   THEN <<[strong |-> url, rest |-> description]>>
                   ELSE <<[strong |-> JNull, rest |-> url]>>
        ELSE IF a.type = "str" THEN <<[strong |-> JNull, rest |-> a]>>
        ELSE <<>>
      F[k \in 0..Len(elems)] == IF k = 0 THEN <<>> ELSE F[k - 1] \o Item(elems[k])
  IN  F[Len(elems)]

\* a decoder that leaves nothing bound when the text does not decode
affected_assets_list_none_on_error(raw) ==
  IF raw = <<>> THEN JList(<<>>)
  ELSE LET r == JsonLoads(raw) IN IF r.ok THEN r.val ELSE JNull

\* affected_assets_list: the decoded JSON, or [] when the field is empty or
\* does not decode
affected_assets_list(raw) ==
  IF raw = <<>> THEN JList(<<>>)
  ELSE LET r == JsonLoads(raw) IN IF r.ok THEN r.val ELSE JList(<<>>)

\* affected_assets_html: "" , <ul>...</ul> kept as its items, or the
\* rendering of the raw text when it does not decode
affected_assets_html(raw) ==
  IF raw = <<>> THEN EmptyText
  ELSE LET r == JsonLoads(raw)
       IN  IF ~r.ok THEN to_html(JStr(raw))
           ELSE IF r.val.type = "list" /\ AssetItems(r.val.items) # <<>>
                THEN [fn |-> "ul", arg |-> JNull, items |-> AssetItems(r.val.items)]
                ELSE EmptyText

\* finding.affectedAssetsCount or len(affected_assets_list): len of an int,
\* a bool or None raises TypeError
affected_assets_count(finding) ==
  LET decoded == affected_assets_list(finding.affectedAssetsJson)
  IN  IF finding.affectedAssetsCount # 0
      THEN [raises |-> FALSE, value |-> finding.affectedAssetsCount]
      ELSE IF HasLen(decoded)
           THEN [raises |-> FALSE, value |-> LenOf(decoded)]
           ELSE [raises |-> TRUE, value |-> 0]

\* references: the decoded JSON, or the raw text wrapped in a list
parse_references(raw) ==
  IF raw = <<>> THEN JList(<<>>)
  ELSE LET r == JsonLoads(raw)
       IN  IF r.ok THEN r.val ELSE JList(<<JStr(raw)>>)

\* the decimal digits of n
RECURSIVE DigitsOf(_)
DigitsOf(n) ==
  LET d == <<"0","1","2","3","4","5","6","7","8","9">>[(n % 10) + 1]
  IN  IF n < 10 THEN <<d>> ELSE Append(DigitsOf(n \div 10), d)

\* f"FIND-{index}", without the padding
synthesized_reference_unpadded(index) == <<"F","I","N","D","-">> \o DigitsOf(index)

\* f"FIND-{index:03d}"
synthesized_reference(index) ==
  LET ds == DigitsOf(index)
      pad == [k \in 1..(IF Len(ds) < 3 THEN 3 - Len(ds) ELSE 0) |-> "0"]
  IN  <<"F","I","N","D","-">> \o pad \o ds

\* finding.severity.upper() if finding.severity else 'MEDIUM'
context_severity(severity) ==
  IF severity # <<>> THEN Upper(severity) ELSE MEDIUM

\* the process environment: BACKEND_URL, when it is set
VARIABLE environ

\* the rich-text collaborator: the field whose rendering it fails on
\* ("none", "project", "finding", "narrative") and the exception it raises
VARIABLE rich_text

NoFailure == [fails |-> "none", exception |-> "none"]

DefaultBackendUrl ==
  <<"h","t","t","p",":","/","/","l","o","c","a","l","h","o","s","t",":","8","0","0","0">>

\* os.getenv("BACKEND_URL", "http://localhost:8000")
base_url == IF environ.set THEN environ.BACKEND_URL ELSE DefaultBackendUrl

DefaultCaption == <<"E","v","i","d","e","n","c","e">>

\* an element of finding.evidences.  kind is "Evidence" for a stored
\* record (path is its filepath, None when path_is_none), "str" for a bare
\* string (path is the string) and "dict" for a mapping (path and caption
\* are its url and caption members)
EvidenceItem(kind, path, path_is_none, caption) ==
  [kind |-> kind, path |-> path, path_is_none |-> path_is_none, caption |-> caption]

\* the image URL of a raw path: absolute as it is, rooted after the backend
\* origin without its trailing slashes, anything else as it is
resolve_url(raw_url, base) ==
  IF StartsWith(raw_url, <<"h","t","t","p">>) THEN raw_url
  ELSE IF StartsWith(raw_url, <<"/">>) THEN RStripSlash(base) \o raw_url
  ELSE raw_url

\* raw_url and caption of one element, by the branch that takes it
evidence_raw(item) ==
  IF item.kind = "Evidence"
  THEN [raw_url |-> item.path,
        caption |-> IF item.caption # <<>> THEN item.caption ELSE DefaultCaption]
  ELSE IF item.kind = "str"
  THEN [raw_url |-> item.path, caption |-> DefaultCaption]
  ELSE [raw_url |-> item.path, caption |-> DefaultCaption]

\* True when the evidence of a finding raises AttributeError: an element
\* that is no record has no id, and None has no startswith
evidence_raises(evidences) ==
  \E k \in 1..Len(evidences) :
    evidences[k].kind # "Evidence" \/ evidences[k].path_is_none

\* evidence_items: one {"url", "caption"} per element, in order
evidence_items(evidences) ==
  [k \in 1..Len(evidences) |->
     [url |-> resolve_url(evidence_raw(evidences[k]).raw_url, base_url),
      caption |-> evidence_raw(evidences[k]).caption]]

\* the exception _build_finding_context(finding, index) raises, "none" when
\* it returns
finding_context_error(finding) ==
  IF evidence_raises(finding.evidences) THEN "AttributeError"
  ELSE IF rich_text.fails = "finding" THEN rich_text.exception
  ELSE IF affected_assets_count(finding).raises THEN "TypeError"
  ELSE "none"

\* True when _build_finding_context(finding, index) raises
finding_context_raises(finding) == finding_context_error(finding) # "none"

\* the FindingContext _build_finding_context(finding, index) returns
build_finding_context(finding, index) ==
  [ id |-> finding.id,
    reference_id |-> IF finding.referenceId # <<>> THEN finding.referenceId
                     ELSE synthesized_reference(index),
    severity |-> context_severity(finding.severity),
    cvss_vector |-> IF finding.cvssVector # <<>> THEN finding.cvssVector
                    ELSE <<"N","/","A">>,
    affected_assets_json |-> finding.affectedAssetsJson,
    affected_assets_html |-> affected_assets_html(finding.affectedAssetsJson),
    affected_assets_count |-> affected_assets_count(finding).value,
    evidence_items |-> evidence_items(finding.evidences),
    references |-> parse_references(finding.references) ]

----------------------------------------------------------------------------
(* _calculate_stats.  Percentages and the risk score are floats rounded to *)
(* one decimal; they are kept in tenths, so 22.5 is 225.                   *)

\* round(n / d * 100, 1) in tenths, halves to the even neighbour; 0 for d = 0.
\* An exact half needs a total that is a multiple of 8, where the float
\* decides: the finding lists checked have no such total.
round_tenths(n, d) ==
  IF d = 0 THEN 0
  ELSE LET q == (n * 1000) \div d
           r == (n * 1000) % d
       IN  IF 2 * r < d THEN q
           ELSE IF 2 * r > d THEN q + 1
           ELSE IF q % 2 = 0 THEN q ELSE q + 1

\* stats_severity with every unknown name counted as MEDIUM
stats_severity_default_medium(severity) ==
  LET s == IF severity # <<>> THEN Upper(severity) ELSE MEDIUM
  IN  IF s = INFORMATIONAL THEN INFO
      ELSE IF s \in CountKeys THEN s ELSE MEDIUM

\* the key a finding is counted under; a key outside counts is not counted
stats_severity(severity) ==
  LET s == IF severity # <<>> THEN Upper(severity) ELSE MEDIUM
  IN  IF s = INFORMATIONAL THEN INFO ELSE s

\* counts after the loop over findings
severity_counts(findings) ==
  [sev \in CountKeys |->
     Cardinality({k \in 1..Len(findings) : stats_severity(findings[k].severity) = sev})]

\* sum(counts[sev] * SEVERITY_WEIGHTS.get(sev, 0) for sev in counts)
weighted_sum(counts) ==
  counts[CRITICAL] * SEVERITY_WEIGHTS(CRITICAL) + counts[HIGH] * SEVERITY_WEIGHTS(HIGH)
  + counts[MEDIUM] * SEVERITY_WEIGHTS(MEDIUM) + counts[LOW] * SEVERITY_WEIGHTS(LOW)
  + counts[INFO] * SEVERITY_WEIGHTS(INFO)

\* max_possible as if all were high
max_possible_all_high(total) == total * 7

\* total * 10, "if all were critical"
max_possible(total) == total * 10

\* risk_level with counts['MEDIUM'] >= 0 for counts['MEDIUM'] > 0
risk_level_medium_nonstrict(counts, risk_score) ==
  IF counts[CRITICAL] > 0 \/ risk_score >= 700 THEN "Critical"
  ELSE IF counts[HIGH] > 0 \/ risk_score >= 500 THEN "High"
  ELSE IF counts[MEDIUM] >= 0 \/ risk_score >= 250 THEN "Medium"
  ELSE "Low"

\* risk_level with "and" for "or" in the HIGH test
risk_level_high_needs_score(counts, risk_score) ==
  IF counts[CRITICAL] > 0 \/ risk_score >= 700 THEN "Critical"
  ELSE IF counts[HIGH] > 0 /\ risk_score >= 500 THEN "High"
  ELSE IF counts[MEDIUM] > 0 \/ risk_score >= 250 THEN "Medium"
  ELSE "Low"

\* risk_level without the numeric thresholds
risk_level_counts_only(counts, risk_score) ==
  IF counts[CRITICAL] > 0 THEN "Critical"
  ELSE IF counts[HIGH] > 0 THEN "High"
  ELSE IF counts[MEDIUM] > 0 THEN "Medium"
  ELSE "Low"

\* the if / elif chain on counts and risk_score (in tenths)
risk_level(counts, risk_score) ==
  IF counts[CRITICAL] > 0 \/ risk_score >= 700 THEN "Critical"
  ELSE IF counts[HIGH] > 0 \/ risk_score >= 500 THEN "High"
  ELSE IF counts[MEDIUM] > 0 \/ risk_score >= 250 THEN "Medium"
  ELSE "Low"

\* a total that leaves out the findings counted under no key
total_recognized(findings) ==
  Cardinality({k \in 1..Len(findings) : stats_severity(findings[k].severity) \in CountKeys})

\* total = len(findings)
total_of(findings) == Len(findings)

calculate_stats(findings) ==
  LET total == total_of(findings)
      counts == severity_counts(findings)
      pct(count) == round_tenths(count, total)
      risk_score == round_tenths(weighted_sum(counts), max_possible(total))
  IN  [ total_findings |-> total,
        critical_count |-> counts[CRITICAL],
        high_count |-> counts[HIGH],
        medium_count |-> counts[MEDIUM],
        low_count |-> counts[LOW],
        info_count |-> counts[INFO],
        critical_percent |-> pct(counts[CRITICAL]),
        high_percent |-> pct(counts[HIGH]),
        medium_percent |-> pct(counts[MEDIUM]),
        low_percent |-> pct(counts[LOW]),
        info_percent |-> pct(counts[INFO]),
        risk_score |-> risk_score,
        risk_level |-> risk_level(counts, risk_score) ]

----------------------------------------------------------------------------
(* _group_findings_by_severity *)

\* a key without the informational alias
group_key_no_alias(severity) == Lower(severity)

\* the key a FindingContext is appended under; a key outside grouped is dropped
group_key(severity) ==
  LET k == Lower(severity)
  IN  IF k = informational THEN info ELSE k

\* Bucket with each context put in front of those already there
Bucket_newest_first(contexts, key) ==
  LET b == SelectSeq(contexts, LAMBDA f : group_key(f.severity) = key)
  IN  [k \in 1..Len(b) |-> b[Len(b) + 1 - k]]

\* the subsequence of contexts appended under key
Bucket(contexts, key) ==
  SelectSeq(contexts, LAMBDA f : group_key(f.severity) = key)

group_findings_by_severity(contexts) ==
  [key \in GroupKeys |-> Bucket(contexts, key)]

----------------------------------------------------------------------------
(* The narrative payload (report.htmlContent) *)

\* .get on a value that is not a dict raises AttributeError, caught with
\* json.JSONDecodeError: the raw payload is then rendered as it is
parse_narrative(raw) ==
  IF raw = <<>> THEN [html |-> EmptyText, plain |-> EmptyText]
  ELSE LET r == JsonLoads(raw)
       IN  IF r.ok /\ r.val.type = "obj"
           THEN LET executive_summary ==
                      dict_get(r.val, <<"e","x","e","c","u","t","i","v","e",
                                        "S","u","m","m","a","r","y">>, JStr(<<>>))
                IN  IF ~Truthy(executive_summary)
                    THEN [html |-> EmptyText, plain |-> EmptyText]
                    ELSE IF rich_text.fails = "narrative"
                    THEN [html |-> sanitize_html(JStr(raw)), plain |-> to_plain(JStr(raw))]
                    ELSE [html |-> to_html(executive_summary),
                          plain |-> to_plain(executive_summary)]
           ELSE [html |-> sanitize_html(JStr(raw)), plain |-> to_plain(JStr(raw))]

\* the exception that escapes the narrative block, "none" when none does:
\* a failure of to_html inside the try is caught when it is a TypeError or
\* an AttributeError, a failure of the legacy rendering never is
narrative_error(raw) ==
  IF raw = <<>> \/ rich_text.fails # "narrative" THEN "none"
  ELSE LET r == JsonLoads(raw)
       IN  IF r.ok /\ r.val.type = "obj"
           THEN IF Truthy(dict_get(r.val, <<"e","x","e","c","u","t","i","v","e",
                                            "S","u","m","m","a","r","y">>, JStr(<<>>)))
                   /\ rich_text.exception \notin {"TypeError", "AttributeError"}
                THEN rich_text.exception
                ELSE "none"
           ELSE rich_text.exception

----------------------------------------------------------------------------
(* _fetch_logo_as_base64 *)

HttpScheme == <<"h","t","t","p",":","/","/">>
HttpsScheme == <<"h","t","t","p","s",":","/","/">>

\* a test that lets the request go out for every logo source that is there
logo_is_fetched_any(url) == url # <<>>

\* the test that lets the request go out
logo_is_fetched(url) ==
  url # <<>> /\ (StartsWith(url, HttpScheme) \/ StartsWith(url, HttpsScheme))

\* what the GET can end in: a status with or without a content-type header,
\* or an exception (network error, timeout)
LogoResponses ==
  { [kind |-> "response", status |-> 200, content_type |-> <<"i","m","a","g","e","/","j","p","e","g">>],
    [kind |-> "response", status |-> 200, content_type |-> <<>>],
    [kind |-> "response", status |-> 404, content_type |-> <<>>],
    [kind |-> "exception", status |-> 0, content_type |-> <<>>] }

\* the absent logo (None)
NoLogo == [present |-> FALSE, content_type |-> <<>>, url |-> <<>>]

\* a fetch that inlines the body of every response, whatever its status
logo_of_response_any_status(url, resp) ==
  IF resp.kind = "response"
  THEN [ present |-> TRUE,
         content_type |-> IF resp.content_type # <<>> THEN resp.content_type
                          ELSE <<"i","m","a","g","e","/","p","n","g">>,
         url |-> url ]
  ELSE NoLogo

\* f"data:{content_type};base64,{encoded}" of the body served at url
logo_of_response(url, resp) ==
  IF resp.kind = "response" /\ resp.status = 200
  THEN [ present |-> TRUE,
         content_type |-> IF resp.content_type # <<>> THEN resp.content_type
                          ELSE <<"i","m","a","g","e","/","p","n","g">>,
         url |-> url ]
  ELSE NoLogo

\* the ClientContext built once the logo is settled
client_context_of(client, logo) ==
  [ logo_url |-> client.websiteUrl, logo_base64 |-> logo ]

----------------------------------------------------------------------------
(* context_to_dict *)

\* parse_affected_assets: the truthy elements of the decoded list, a dict
\* by its url when it has one; [] for anything that is no list
parse_affected_assets(finding) ==
  LET assets_json == finding.affected_assets_json
      r == JsonLoads(assets_json)
      Asset(a) == IF ~Truthy(a) THEN <<>>
                  ELSE IF a.type = "obj" THEN <<dict_get(a, <<"u","r","l">>, a)>>
                  ELSE <<a>>
      F[k \in 0..Len(r.val.items)] ==
        IF k = 0 THEN <<>> ELSE F[k - 1] \o Asset(r.val.items[k])
  IN  IF assets_json = <<>> THEN JList(<<>>)
      ELSE IF r.ok /\ r.val.type = "list" THEN JList(F[Len(r.val.items)])
      ELSE JList(<<>>)

\* client_data.get("logo_base64") or client_data.get("logo_url"): the data
\* URI, else the URL, else nothing
client_logo(client_data) ==
  IF client_data.logo_base64.present
  THEN [kind |-> "data_uri", content_type |-> client_data.logo_base64.content_type,
        url |-> client_data.logo_base64.url]
  ELSE IF client_data.logo_url # <<>>
  THEN [kind |-> "url", content_type |-> <<>>, url |-> client_data.logo_url]
  ELSE [kind |-> "none", content_type |-> <<>>, url |-> <<>>]

\* a finding_id that is the reference_id even when that is empty
mapped_finding_id_reference_only(finding) == finding.reference_id

\* finding.get("reference_id") or finding.get("id", "")
mapped_finding_id(finding) ==
  IF finding.reference_id # <<>> THEN finding.reference_id ELSE finding.id

\* finding.get("cvss_vector") or "N/A"
mapped_cvss(finding) ==
  IF finding.cvss_vector # <<>> THEN finding.cvss_vector ELSE <<"N","/","A">>

\* one element of mapped_dict["findings"]: the finding's own keys and the
\* three added ones
mapped_finding(finding) ==
  [ cvss |-> mapped_cvss(finding),
    finding_id |-> mapped_finding_id(finding),
    assets |-> parse_affected_assets(finding) ] @@ finding

\* mapped_dict["stats"]
mapped_stats(stats_data) ==
  [ critical |-> stats_data.critical_count,
    high |-> stats_data.high_count,
    medium |-> stats_data.medium_count,
    low |-> stats_data.low_count,
    info |-> stats_data.info_count,
    total |-> stats_data.total_findings ]

\* the mapping context_to_dict(context) returns
context_to_dict(ctx) ==
  [ report |-> [id |-> ctx.report_id, executive_summary |-> ctx.executive_summary_html],
    stats |-> mapped_stats(ctx.stats),
    client |-> [logo |-> client_logo(ctx.client)] @@ ctx.client,
    project |-> ctx.project,
    findings |-> [k \in 1..Len(ctx.findings) |-> mapped_finding(ctx.findings[k])],
    executive_summary_plain |-> ctx.executive_summary_plain,
    findings_by_severity |-> ctx.findings_by_severity ]

----------------------------------------------------------------------------
(* State *)

\* the invocations of build_context
Calls == {1, 2}

VARIABLES
  store,                \* the relational store: report id -> report record
  pc,                   \* where each invocation stands
  report_id,            \* the argument of each invocation
  report,               \* the fetched record; report.project.findings is the list sorted in place
  client_context,
  project_context,
  findings_context,
  stats,
  findings_by_severity,
  executive_summary,
  context,              \* the ReportContext returned
  error,                \* the exception raised
  logo_response,        \* how the GET of the logo ended
  mapped,               \* what context_to_dict returned for the context
  steps                 \* the statements of build_context executed so far, in order

vars == <<environ, rich_text, store, logo_response, mapped, pc, report_id, report, client_context, project_context,
          findings_context, stats, findings_by_severity, executive_summary,
          context, error, steps>>

\* a local not yet bound
Unset == [unset |-> TRUE]

NoError == "none"

Locals == <<client_context, project_context, findings_context, stats,
            findings_by_severity, executive_summary>>

Step(c, name, next) ==
  /\ pc' = [pc EXCEPT ![c] = next]
  /\ steps' = [steps EXCEPT ![c] = Append(@, name)]

----------------------------------------------------------------------------
(* build_context, one action per statement group; the two awaits          *)
(* (db.report.find_unique and the GET of the logo) are the suspension      *)
(* points.                                                                 *)

\* a lookup through a cache the invocations share: the record fetched
\* first serves every later lookup
find_report_cached(db, rid) ==
  IF \E c \in Calls : "id" \in DOMAIN report[c]
  THEN report[CHOOSE c \in Calls : "id" \in DOMAIN report[c]]
  ELSE db[rid]

\* the record db.report.find_unique(where={"id": report_id}, ...) gives for
\* a stored id
find_report(db, rid) == db[rid]

\* await db.report.find_unique(...); if not report: raise ValueError
find_unique(c) ==
  /\ pc[c] = "find_unique"
  /\ IF report_id[c] \in DOMAIN store
     THEN /\ report' = [report EXCEPT ![c] = find_report(store, report_id[c])]
          /\ Step(c, "find_unique", "sort")
          /\ error' = error
     ELSE /\ error' = [error EXCEPT ![c] = "ValueError: Report not found"]
          /\ Step(c, "find_unique", "raised")
          /\ report' = report
  /\ UNCHANGED <<environ, rich_text, store, logo_response, mapped, report_id, Locals, context>>

\* findings = project.findings; findings.sort(key=...)
sort(c) ==
  /\ pc[c] = "sort"
  /\ report' = [report EXCEPT ![c].project.findings = sort_findings(@)]
  /\ Step(c, "sort", "client")
  /\ UNCHANGED <<environ, rich_text, store, logo_response, mapped, report_id, Locals, context, error>>

\* _build_client_context up to the await of the GET, or to its end when no
\* request goes out
build_client_context(c) ==
  /\ pc[c] = "client"
  /\ LET client == report[c].project.client
     IN  IF logo_is_fetched(client.websiteUrl)
         THEN /\ Step(c, "http_get", "logo")
              /\ client_context' = client_context
         ELSE /\ Step(c, "client", "project")
              /\ client_context' = [client_context EXCEPT ![c] = client_context_of(client, NoLogo)]
  /\ UNCHANGED <<environ, rich_text, store, logo_response, mapped, report_id, report, project_context, findings_context, stats,
                 findings_by_severity, executive_summary, context, error>>

\* the GET ends, in a response or an exception; _build_client_context returns
fetch_logo_as_base64(c) ==
  /\ pc[c] = "logo"
  /\ \E resp \in LogoResponses :
       LET client == report[c].project.client
       IN  /\ client_context' = [client_context EXCEPT ![c] =
                client_context_of(client, logo_of_response(client.websiteUrl, resp))]
           /\ logo_response' = [logo_response EXCEPT ![c] = resp]
  /\ Step(c, "client", "project")
  /\ UNCHANGED <<environ, rich_text, store, mapped, report_id, report, project_context, findings_context, stats,
                 findings_by_severity, executive_summary, context, error>>

\* project_context = cls._build_project_context(project)
build_project(c) ==
  /\ pc[c] = "project"
  /\ IF rich_text.fails = "project"
     THEN /\ error' = [error EXCEPT ![c] = rich_text.exception]
          /\ Step(c, "project", "raised")
          /\ project_context' = project_context
     ELSE /\ project_context' = [project_context EXCEPT ![c] =
                build_project_context(report[c].project)]
          /\ Step(c, "project", "findings")
          /\ error' = error
  /\ UNCHANGED <<environ, rich_text, store, logo_response, mapped, report_id, report, client_context, findings_context, stats,
                 findings_by_severity, executive_summary, context>>

\* findings_context = [cls._build_finding_context(f, idx + 1) for idx, f in enumerate(findings)]
build_findings(c) ==
  /\ pc[c] = "findings"
  /\ LET findings == report[c].project.findings
     IN  IF \E k \in 1..Len(findings) : finding_context_raises(findings[k])
         THEN /\ error' = [error EXCEPT ![c] = finding_context_error(
                              findings[CHOOSE k \in 1..Len(findings) :
                                         /\ finding_context_raises(findings[k])
                                         /\ \A j \in 1..(k - 1) :
                                              ~finding_context_raises(findings[j])])]
              /\ Step(c, "findings", "raised")
              /\ findings_context' = findings_context
         ELSE /\ findings_context' = [findings_context EXCEPT ![c] =
                    [k \in 1..Len(findings) |-> build_finding_context(findings[k], k)]]
              /\ Step(c, "findings", "stats")
              /\ error' = error
  /\ UNCHANGED <<environ, rich_text, store, logo_response, mapped, report_id, report, client_context, project_context, stats,
                 findings_by_severity, executive_summary, context>>

\* stats = cls._calculate_stats(findings)
build_stats(c) ==
  /\ pc[c] = "stats"
  /\ stats' = [stats EXCEPT ![c] = calculate_stats(report[c].project.findings)]
  /\ Step(c, "stats", "group")
  /\ UNCHANGED <<environ, rich_text, store, logo_response, mapped, report_id, report, client_context, project_context,
                 findings_context, findings_by_severity, executive_summary, context, error>>

\* findings_by_severity = cls._group_findings_by_severity(findings_context)
group_findings(c) ==
  /\ pc[c] = "group"
  /\ findings_by_severity' = [findings_by_severity EXCEPT ![c] =
        group_findings_by_severity(findings_context[c])]
  /\ Step(c, "group", "narrative")
  /\ UNCHANGED <<environ, rich_text, store, logo_response, mapped, report_id, report, client_context, project_context,
                 findings_context, stats, executive_summary, context, error>>

\* the executive summary out of report.htmlContent
narrative(c) ==
  /\ pc[c] = "narrative"
  /\ IF narrative_error(report[c].htmlContent) # "none"
     THEN /\ error' = [error EXCEPT ![c] = narrative_error(report[c].htmlContent)]
          /\ Step(c, "narrative", "raised")
          /\ executive_summary' = executive_summary
     ELSE /\ executive_summary' = [executive_summary EXCEPT ![c] =
                parse_narrative(report[c].htmlContent)]
          /\ Step(c, "narrative", "assemble")
          /\ error' = error
  /\ UNCHANGED <<environ, rich_text, store, logo_response, mapped, report_id, report, client_context, project_context,
                 findings_context, stats, findings_by_severity, context>>

\* context = ReportContext(...); return context
return_context(c) ==
  /\ pc[c] = "assemble"
  /\ context' = [context EXCEPT ![c] =
        [ report_id |-> report[c].id,
          client |-> client_context[c],
          project |-> project_context[c],
          findings |-> findings_context[c],
          stats |-> stats[c],
          executive_summary_html |-> executive_summary[c].html,
          executive_summary_plain |-> executive_summary[c].plain,
          findings_by_severity |-> findings_by_severity[c] ]]
  /\ Step(c, "return", "done")
  /\ UNCHANGED <<environ, rich_text, store, logo_response, mapped, report_id, report, Locals, error>>

\* the caller flattens the context it was given: context_to_dict(context)
to_dict(c) ==
  /\ pc[c] = "done"
  /\ steps[c][Len(steps[c])] = "return"
  /\ mapped' = [mapped EXCEPT ![c] = context_to_dict(context[c])]
  /\ Step(c, "context_to_dict", "done")
  /\ UNCHANGED <<environ, rich_text, store, logo_response, report_id, report, Locals, context, error>>

Next ==
  \E c \in Calls :
    \/ find_unique(c)
    \/ sort(c)
    \/ build_client_context(c)
    \/ fetch_logo_as_base64(c)
    \/ build_project(c)
    \/ build_findings(c)
    \/ build_stats(c)
    \/ group_findings(c)
    \/ narrative(c)
    \/ return_context(c)
    \/ to_dict(c)

----------------------------------------------------------------------------
(* Stored records and the inputs enumerated. *)

ReportIds == {"r1", "r2"}

Finding(id, severity, referenceId, references, affectedAssetsJson, affectedAssetsCount) ==
  [ id |-> id, severity |-> severity, referenceId |-> referenceId,
    references |-> references, affectedAssetsJson |-> affectedAssetsJson,
    affectedAssetsCount |-> affectedAssetsCount,
    cvssVector |-> None, evidences |-> <<>> ]

Report(id, htmlContent, scope, complianceFrameworks, websiteUrl, findings) ==
  [ id |-> id,
    htmlContent |-> htmlContent,
    project |-> [ scope |-> scope,
                  complianceFrameworks |-> complianceFrameworks,
                  description |-> <<"d">>,
                  client |-> [websiteUrl |-> websiteUrl],
                  findings |-> findings ] ]

\* stored texts
TxtList == <<"[","\"","a","\"","]">>
TxtString == <<"\"","a","\"">>
TxtNumber == <<"5">>
TxtNull == <<"n","u","l","l">>
TxtObject == <<"{","}">>
TxtTruncated == <<"[","\"","a">>
TxtPlain == <<"a",","," ","b">>
TxtAssets == <<"[","{","\"","u","r","l","\"",":","\"","a","\"","}",",","\"","b","\"","]">>
TxtNarrative ==
  <<"{","\"","e","x","e","c","u","t","i","v","e","S","u","m","m","a","r","y","\"",
    ":","\"","s","\"","}">>
TxtOtherObject == <<"{","\"","a","\"",":","1","}">>
TxtHtml == <<"<","p",">","s","<","/","p",">">>
TxtLogo == <<"h","t","t","p","s",":","/","/","x">>
TxtLocalLogo == <<"/","l">>
TxtBareHttp == <<"h","t","t","p",":","x">>

\* stored severities: the five names, the alias, a mixed-case spelling, a
\* missing severity and a name the service does not know
SeverityValues ==
  { CRITICAL, HIGH, MEDIUM, LOW, INFO, INFORMATIONAL,
    <<"H","i","g","h">>, None, <<"U","R","G","E","N","T">> }

\* the id of the k-th finding the store gives for a report
FindingId(k) == <<"f">> \o DigitsOf(k)

\* a finding with nothing stored but its severity; its id is its place in
\* the fetch result
PlainFinding(id, severity) == Finding(id, severity, None, None, None, 0)

\* the scenario of four findings {HIGH, LOW, LOW, INFO}
FourFindings == <<HIGH, LOW, LOW, INFO>>

\* the fetch results enumerated: the store's ordering of severity strings
\* is the database's, so every order is a fetch result
SeverityLists ==
  UNION {[1..n -> SeverityValues] : n \in 0..MaxFindings} \cup {FourFindings}

FindingsOf(severities) ==
  [k \in 1..Len(severities) |-> PlainFinding(FindingId(k), severities[k])]

\* BACKEND_URL is not set
NoEnvironment == [set |-> FALSE, BACKEND_URL |-> <<>>]

\* no GET has ended
NoResponse == [kind |-> "none", status |-> 0, content_type |-> <<>>]

\* the state in which the invocations of started have been called, each
\* with its report id, and no other has
CalledWith(env, adapter, db, started, rids) ==
  /\ environ = env
  /\ rich_text = adapter
  /\ store = db
  /\ pc = [c \in Calls |-> IF c \in started THEN "find_unique" ELSE "idle"]
  /\ report_id = [c \in Calls |-> IF c \in started THEN rids[c] ELSE ""]
  /\ report = [c \in Calls |-> Unset]
  /\ client_context = [c \in Calls |-> Unset]
  /\ project_context = [c \in Calls |-> Unset]
  /\ findings_context = [c \in Calls |-> Unset]
  /\ stats = [c \in Calls |-> Unset]
  /\ findings_by_severity = [c \in Calls |-> Unset]
  /\ executive_summary = [c \in Calls |-> Unset]
  /\ context = [c \in Calls |-> Unset]
  /\ error = [c \in Calls |-> NoError]
  /\ logo_response = [c \in Calls |-> NoResponse]
  /\ mapped = [c \in Calls |-> Unset]
  /\ steps = [c \in Calls |-> <<>>]

\* the same with a rich-text collaborator that renders every field
CalledIn(env, db, started, rids) == CalledWith(env, NoFailure, db, started, rids)

\* the state in which invocation 1 has been called with rid and no other has
Called(db, rid) == CalledIn(NoEnvironment, db, {1}, [c \in Calls |-> rid])

\* findings of every severity, in every fetch order
Init ==
  \E severities \in SeverityLists, rid \in ReportIds :
    Called("r1" :> Report("r1", TxtNarrative, TxtList, TxtList, TxtLogo,
                          FindingsOf(severities)), rid)

Spec == Init /\ [][Next]_vars

\* one finding at most, every stored shape of the JSON-bearing fields
AssetTexts ==
  {None, TxtAssets, TxtList, TxtString, TxtNumber, TxtNull, TxtObject, TxtTruncated, TxtPlain}

ReferenceTexts == {None, TxtList, TxtString, TxtPlain}

NarrativeTexts == {None, TxtNarrative, TxtOtherObject, TxtList, TxtNumber, TxtHtml}

ListTexts == {TxtList, TxtNumber, TxtPlain}

FieldFindings ==
  {<<>>} \cup
  { <<Finding(FindingId(1), HIGH, referenceId, references, assets, count)>> :
      referenceId \in {None}, references \in ReferenceTexts,
      assets \in AssetTexts, count \in {0, 2} }

InitFields ==
  \E findings \in FieldFindings, html \in NarrativeTexts, scope \in ListTexts,
     url \in {None, TxtLogo, TxtLocalLogo, TxtBareHttp}, rid \in ReportIds :
    Called("r1" :> Report("r1", html, scope, TxtList, url, findings), rid)

SpecFields == InitFields /\ [][Next]_vars

\* every short text in scope or in complianceFrameworks
PieceSet ==
  { <<"[">>, <<"]">>, <<"\"">>, <<",">>, <<"\n">>, <<" ">>, <<"a">>, <<"1">>,
    TxtObject, TxtNull }

RECURSIVE Concat(_)
Concat(pieces) ==
  IF pieces = <<>> THEN <<>> ELSE Head(pieces) \o Concat(Tail(pieces))

ProjectTexts ==
  {Concat(pieces) : pieces \in UNION {[1..n -> PieceSet] : n \in 0..MaxPieces}}

InitProject ==
  \E text \in ProjectTexts, field \in {"scope", "complianceFrameworks"}, rid \in ReportIds :
    Called("r1" :> Report("r1", TxtNarrative,
                          IF field = "scope" THEN text ELSE TxtList,
                          IF field = "scope" THEN TxtList ELSE text,
                          TxtLogo, <<>>), rid)

SpecProject == InitProject /\ [][Next]_vars

\* stored evidence paths: absolute, rooted, protocol-relative, relative, empty
TxtHttpPath == <<"h","t","t","p",":","/","/","e","/","i">>
TxtHttpsPath == <<"h","t","t","p","s",":","/","/","e","/","i">>
TxtRootedPath == <<"/","u","/","i">>
TxtDoubleSlashPath == <<"/","/","e","/","i">>
TxtRelativePath == <<"u","/","i">>

EvidencePaths ==
  {TxtHttpPath, TxtHttpsPath, TxtRootedPath, TxtDoubleSlashPath, TxtRelativePath, <<>>}

TxtOrigin == <<"h","t","t","p",":","/","/","h">>

\* BACKEND_URL unset, set to an origin with no, one or two trailing
\* slashes, or set to the empty string
Environments ==
  { NoEnvironment,
    [set |-> TRUE, BACKEND_URL |-> TxtOrigin],
    [set |-> TRUE, BACKEND_URL |-> TxtOrigin \o <<"/">>],
    [set |-> TRUE, BACKEND_URL |-> TxtOrigin \o <<"/","/">>],
    [set |-> TRUE, BACKEND_URL |-> <<>>] }

\* the Evidence records of one finding: none, one of every path with and
\* without a caption, or a rooted and an absolute one
EvidenceLists ==
  {<<>>} \cup
  { <<EvidenceItem("Evidence", path, FALSE, caption)>> :
      path \in EvidencePaths, caption \in {None, <<"c">>} } \cup
  { <<EvidenceItem("Evidence", TxtRootedPath, FALSE, None),
      EvidenceItem("Evidence", TxtHttpPath, FALSE, <<"c">>)>> }

WithEvidences(finding, evidences) == [finding EXCEPT !.evidences = evidences]

InitEvidence ==
  \E evidences \in EvidenceLists, env \in Environments, rid \in ReportIds :
    CalledIn(env,
             "r1" :> Report("r1", TxtNarrative, TxtList, TxtList, TxtLogo,
                            <<WithEvidences(PlainFinding(FindingId(1), HIGH), evidences)>>),
             {1}, [c \in Calls |-> rid])

SpecEvidence == InitEvidence /\ [][Next]_vars

\* two reports, each with findings of its own (two, or ten), the first
\* finding of the second report with a stored reference code, and an
\* invocation for each started before either has run
ConcurrentLists ==
  {<<LOW, HIGH>>, <<None, CRITICAL>>, <<INFORMATIONAL, INFO>>, <<MEDIUM, MEDIUM>>,
   <<LOW, LOW, LOW, LOW, LOW, LOW, LOW, LOW, LOW, HIGH>>}

OtherFindingId(k) == <<"g">> \o DigitsOf(k)

InitConcurrent ==
  \E first \in ConcurrentLists, second \in ConcurrentLists :
    CalledIn(NoEnvironment,
             ("r1" :> Report("r1", TxtNarrative, TxtList, TxtList, TxtLogo, FindingsOf(first)))
             @@ ("r2" :> Report("r2", TxtHtml, TxtPlain, TxtList, TxtLogo,
                                [k \in 1..Len(second) |->
                                   Finding(OtherFindingId(k), second[k],
                                           IF k = 1 THEN <<"R">> ELSE None,
                                           None, None, 0)])),
             {1, 2}, [c \in Calls |-> IF c = 1 THEN "r1" ELSE "r2"])

SpecConcurrent == InitConcurrent /\ [][Next]_vars

\* ReportContexts a caller hands to context_to_dict: up to two finding
\* contexts, each with or without a reference_id and a cvss_vector
HandedFindings ==
  LET base(k) == build_finding_context(PlainFinding(FindingId(k), HIGH), k)
      variants(k) ==
        { [base(k) EXCEPT !.reference_id = reference_id, !.cvss_vector = cvss_vector] :
            reference_id \in {None, <<"R">>}, cvss_vector \in {None, <<"V">>} }
  IN  {<<>>} \cup {<<f>> : f \in variants(1)}
      \cup {<<f, g>> : f \in variants(1), g \in variants(2)}

HandedContext(findings) ==
  [ report_id |-> "r0",
    client |-> client_context_of([websiteUrl |-> TxtLogo], NoLogo),
    project |-> build_project_context(Report("r0", None, TxtList, TxtList, TxtLogo, <<>>).project),
    findings |-> findings,
    stats |-> calculate_stats([k \in 1..Len(findings) |-> PlainFinding(findings[k].id, HIGH)]),
    executive_summary_html |-> EmptyText,
    executive_summary_plain |-> EmptyText,
    findings_by_severity |-> group_findings_by_severity(findings) ]

\* invocation 1 stands for a caller that holds a ReportContext and has not
\* flattened it yet; invocation 2 has been called for a stored report
InitDict ==
  /\ environ = NoEnvironment
  /\ rich_text = NoFailure
  /\ store = "r1" :> Report("r1", TxtNarrative, TxtList, TxtList, TxtLogo,
                            FindingsOf(<<LOW, CRITICAL>>))
  /\ pc = [c \in Calls |-> IF c = 1 THEN "done" ELSE "find_unique"]
  /\ report_id = [c \in Calls |-> IF c = 1 THEN "r0" ELSE "r1"]
  /\ report = [c \in Calls |-> Unset]
  /\ client_context = [c \in Calls |-> Unset]
  /\ project_context = [c \in Calls |-> Unset]
  /\ findings_context = [c \in Calls |-> Unset]
  /\ stats = [c \in Calls |-> Unset]
  /\ findings_by_severity = [c \in Calls |-> Unset]
  /\ executive_summary = [c \in Calls |-> Unset]
  /\ \E findings \in HandedFindings :
       context = [c \in Calls |-> IF c = 1 THEN HandedContext(findings) ELSE Unset]
  /\ error = [c \in Calls |-> NoError]
  /\ logo_response = [c \in Calls |-> NoResponse]
  /\ mapped = [c \in Calls |-> Unset]
  /\ steps = [c \in Calls |-> IF c = 1 THEN <<"return">> ELSE <<>>]

SpecDict == InitDict /\ [][Next]_vars

\* evidence lists with an element of every shape: a record with and without
\* a caption, a record whose filepath is None, a bare string, a mapping with
\* and without a caption, a number, and a record followed by a mapping
ShapeLists ==
  { <<EvidenceItem("Evidence", TxtRootedPath, FALSE, caption)>> : caption \in {None, <<"c">>} }
  \cup { <<EvidenceItem("dict", TxtRootedPath, FALSE, caption)>> : caption \in {None, <<"c">>} }
  \cup { <<EvidenceItem("Evidence", None, TRUE, None)>>,
         <<EvidenceItem("str", TxtRootedPath, FALSE, None)>>,
         <<EvidenceItem("int", None, FALSE, None)>>,
         <<EvidenceItem("Evidence", TxtHttpPath, FALSE, None),
           EvidenceItem("dict", TxtHttpPath, FALSE, <<"c">>)>> }

InitShapes ==
  \E evidences \in ShapeLists, rid \in ReportIds,
     env \in {NoEnvironment, [set |-> TRUE, BACKEND_URL |-> TxtOrigin \o <<"/">>]},
     url \in {None, TxtLogo} :
    CalledIn(env,
             "r1" :> Report("r1", TxtNarrative, TxtList, TxtList, url,
                            <<WithEvidences(PlainFinding(FindingId(1), HIGH), evidences)>>),
             {1}, [c \in Calls |-> rid])

SpecShapes == InitShapes /\ [][Next]_vars

\* a rich-text collaborator that renders everything, or fails on one field
\* with an exception the narrative block catches (TypeError) or does not
Adapters ==
  {NoFailure} \cup
  { [fails |-> field, exception |-> exception] :
      field \in {"project", "finding", "narrative"},
      exception \in {"TypeError", "ValueError"} }

InitRichText ==
  \E adapter \in Adapters, html \in {None, TxtNarrative, TxtHtml},
     findings \in {<<>>, FindingsOf(<<HIGH>>)}, rid \in ReportIds :
    CalledWith(NoEnvironment, adapter,
               "r1" :> Report("r1", html, TxtList, TxtList, TxtLogo, findings),
               {1}, [c \in Calls |-> rid])

SpecRichText == InitRichText /\ [][Next]_vars

\* finding sets for the risk level: small ones of every level, and large
\* ones that are all HIGH, or all HIGH but the last
LargeLists ==
  { <<>>, <<MEDIUM>>, <<None>>, <<LOW>>, <<INFO, <<"U","R","G","E","N","T">>>>,
    <<CRITICAL, HIGH>>, <<HIGH, LOW>>, <<HIGH, HIGH>>, <<MEDIUM, LOW, INFO>>,
    [k \in 1..ManyFindings |-> HIGH],
    [k \in 1..ManyFindings |-> IF k = ManyFindings THEN MEDIUM ELSE HIGH],
    [k \in 1..ManyFindings |-> CRITICAL],
    [k \in 1..ManyFindings |-> IF k = ManyFindings THEN HIGH ELSE CRITICAL],
    [k \in 1..ManyFindings |-> IF k = 1 THEN LOW ELSE <<"U","R","G","E","N","T">>],
    [k \in 1..ManyFindings |-> IF k = 1 THEN INFO ELSE <<"U","R","G","E","N","T">>] }

InitLarge ==
  \E severities \in LargeLists, rid \in ReportIds :
    Called("r1" :> Report("r1", TxtNarrative, TxtList, TxtList, TxtLogo,
                          FindingsOf(severities)), rid)

SpecLarge == InitLarge /\ [][Next]_vars

----------------------------------------------------------------------------
(* Properties.  A context is returned by invocation c when pc[c] = "done". *)

\* the fetch result of invocation c, in the order the store gave it
Fetched(c) == store[report_id[c]].project.findings

\* the stored severity of the finding with this id
StoredSeverity(c, id) ==
  Fetched(c)[CHOOSE k \in 1..Len(Fetched(c)) : Fetched(c)[k].id = id].severity

\* the place of the finding with this id in the fetch result
FetchPosition(c, id) == CHOOSE k \in 1..Len(Fetched(c)) : Fetched(c)[k].id = id

\* the ids of a sequence of findings or finding contexts
Ids(fs) == [k \in 1..Len(fs) |-> fs[k].id]

\* C1: build_context(report_id) fails with ValueError "Report not found"
\* whenever the store has no report with that id, before any processing
\* step has run, and for every id that matches a report it returns a
\* ReportContext whose report_id is that id.
C1_NotFoundOrReturned ==
  \A c \in Calls :
    pc[c] \in {"done", "raised"} =>
      IF report_id[c] \notin DOMAIN store
      THEN /\ pc[c] = "raised"
           /\ error[c] = "ValueError: Report not found"
           /\ steps[c] = <<"find_unique">>
      ELSE /\ pc[c] = "done"
           /\ context[c].report_id = report_id[c]

\* C2: for every report that exists build_context returns a ReportContext
\* and never raises, whatever is stored in the narrative, the scope, the
\* compliance frameworks, the references and affected_assets_json.
C2_ExistingReportNeverRaises ==
  \A c \in Calls : report_id[c] \in DOMAIN store => pc[c] # "raised"

\* the rank C3 gives a stored severity
C3_Rank(severity) ==
  LET u == Upper(severity)
  IN  IF u = CRITICAL THEN 1 ELSE IF u = HIGH THEN 2 ELSE IF u = MEDIUM THEN 3
      ELSE IF u = LOW THEN 4 ELSE IF u = INFO THEN 5 ELSE 99

\* C3: the findings of the returned context are the fetched findings, each
\* once, with ranks (1..5 for CRITICAL, HIGH, MEDIUM, LOW, INFO after
\* upper-casing, 99 otherwise) non-decreasing along the sequence, and two
\* findings of equal rank in the order the fetch gave them.
C3_FindingsStablySorted ==
  \A c \in Calls :
    pc[c] = "done" =>
      LET out == context[c].findings
          rank(k) == C3_Rank(StoredSeverity(c, out[k].id))
      IN  /\ Len(out) = Len(Fetched(c))
          /\ \A k \in 1..Len(Fetched(c)) : \E i \in 1..Len(out) : out[i].id = Fetched(c)[k].id
          /\ \A i, j \in 1..Len(out) :
               i < j => /\ rank(i) <= rank(j)
                        /\ rank(i) = rank(j) =>
                             FetchPosition(c, out[i].id) < FetchPosition(c, out[j].id)

\* C3 witness: a returned context whose findings were reordered, with two
\* findings of one rank and different stored severities, one rank being 99
C3_Witness ==
  \E c \in Calls :
    /\ pc[c] = "done"
    /\ Ids(context[c].findings) # Ids(Fetched(c))
    /\ \E i, j \in 1..Len(context[c].findings) :
         /\ i < j
         /\ StoredSeverity(c, context[c].findings[i].id)
              # StoredSeverity(c, context[c].findings[j].id)
         /\ C3_Rank(StoredSeverity(c, context[c].findings[i].id)) = 99
         /\ C3_Rank(StoredSeverity(c, context[c].findings[j].id)) = 99

\* the buckets of a context, one after the other
BucketsInOrder(ctx) ==
  ctx.findings_by_severity[critical] \o ctx.findings_by_severity[high]
  \o ctx.findings_by_severity[medium] \o ctx.findings_by_severity[low]
  \o ctx.findings_by_severity[info]

\* C4: the findings_by_severity buckets, concatenated in the order critical,
\* high, medium, low, info, give the same sequence of finding ids as the
\* sorted findings of the context.
C4_BucketsReproduceFindings ==
  \A c \in Calls :
    pc[c] = "done" => Ids(BucketsInOrder(context[c])) = Ids(context[c].findings)

\* a stored severity the statistics recognize: one of the five names in any
\* letter case, the alias INFORMATIONAL, or a missing severity (counted as
\* MEDIUM)
C5_Recognized(severity) ==
  \/ severity = <<>>
  \/ \E name \in {CRITICAL, HIGH, MEDIUM, LOW, INFO, INFORMATIONAL} :
       /\ Len(severity) = Len(name)
       /\ \A k \in 1..Len(name) : severity[k] \in {name[k], LowerChar(name[k])}

\* C5: the five counts add up to the number of findings whose severity falls
\* in one of the five buckets, hence to total_findings when all do; a
\* finding of unrecognized severity is in the sorted findings at rank 99,
\* with none but rank-99 findings after it, and is in none of the counts.
C5_CountsCoverRecognized ==
  \A c \in Calls :
    pc[c] = "done" =>
      LET st == context[c].stats
          out == context[c].findings
          sum == st.critical_count + st.high_count + st.medium_count
                 + st.low_count + st.info_count
          recognized == {k \in 1..Len(out) : C5_Recognized(StoredSeverity(c, out[k].id))}
      IN  /\ st.total_findings = Len(Fetched(c))
          /\ sum = Cardinality(recognized)
          /\ (recognized = 1..Len(out)) => sum = st.total_findings
          /\ \A k \in 1..Len(Fetched(c)) :
               ~C5_Recognized(Fetched(c)[k].severity) =>
                 \E i \in 1..Len(out) :
                   /\ out[i].id = Fetched(c)[k].id
                   /\ \A j \in (i + 1)..Len(out) : C3_Rank(StoredSeverity(c, out[j].id)) = 99

\* C5 witness: a returned context with a finding of unrecognized severity
\* next to recognized ones
C5_Witness ==
  \E c \in Calls :
    /\ pc[c] = "done"
    /\ \E k \in 1..Len(Fetched(c)) : ~C5_Recognized(Fetched(c)[k].severity)
    /\ \E k \in 1..Len(Fetched(c)) : Fetched(c)[k].severity = LOW
    /\ context[c].stats.total_findings
         > context[c].stats.critical_count + context[c].stats.high_count
           + context[c].stats.medium_count + context[c].stats.low_count
           + context[c].stats.info_count


\* C6: for a report with no findings total_findings is 0, the five
\* percentages and the risk score are 0, risk_level is "Low" and the five
\* buckets are empty.
C6_NoFindings ==
  \A c \in Calls :
    (pc[c] = "done" /\ Len(Fetched(c)) = 0) =>
      LET st == context[c].stats
      IN  /\ st.total_findings = 0
          /\ st.critical_percent = 0 /\ st.high_percent = 0 /\ st.medium_percent = 0
          /\ st.low_percent = 0 /\ st.info_percent = 0
          /\ st.risk_score = 0
          /\ st.risk_level = "Low"
          /\ \A key \in {critical, high, medium, low, info} :
               context[c].findings_by_severity[key] = <<>>

\* C6 witness: a context returned for a report without findings
C6_Witness ==
  \E c \in Calls :
    pc[c] = "done" /\ Len(Fetched(c)) = 0 /\ context[c].findings = <<>>

\* the stored severities of a fetch result are those of seq, in some order
SameSeverities(c, seq) ==
  /\ Len(Fetched(c)) = Len(seq)
  /\ \A sev \in SeverityValues :
       Cardinality({k \in 1..Len(seq) : Fetched(c)[k].severity = sev})
         = Cardinality({k \in 1..Len(seq) : seq[k] = sev})

\* C7: risk_score, in tenths, is the tenth nearest to
\* (10 critical + 7 high + 4 medium + 1 low + 0 info) / (total * 10) * 100,
\* and 0 without findings; one CRITICAL finding gives 100.0 and the set
\* {HIGH, LOW, LOW, INFO} gives 22.5.
C7_RiskScore ==
  \A c \in Calls :
    pc[c] = "done" =>
      LET st == context[c].stats
          total == st.total_findings
          weighted == 10 * st.critical_count + 7 * st.high_count + 4 * st.medium_count
                      + 1 * st.low_count + 0 * st.info_count
          off == st.risk_score * total * 10 - weighted * 1000
      IN  /\ total = 0 => st.risk_score = 0
          /\ total > 0 => /\ 2 * off <= total * 10
                          /\ 2 * (0 - off) <= total * 10
          /\ SameSeverities(c, <<CRITICAL>>) => st.risk_score = 1000
          /\ SameSeverities(c, FourFindings) => st.risk_score = 225

\* C7 witness: the context returned for {HIGH, LOW, LOW, INFO}
C7_Witness ==
  \E c \in Calls :
    /\ pc[c] = "done"
    /\ SameSeverities(c, FourFindings)
    /\ context[c].stats.risk_score = 225

HighPresent(c) == \E k \in 1..Len(Fetched(c)) : Upper(Fetched(c)[k].severity) = HIGH

CriticalPresent(c) == \E k \in 1..Len(Fetched(c)) : Upper(Fetched(c)[k].severity) = CRITICAL

OnlyHigh(c) == \A k \in 1..Len(Fetched(c)) : Upper(Fetched(c)[k].severity) = HIGH

\* C8: with at least one HIGH finding and no CRITICAL finding risk_level is
\* "High", whatever the risk score.
C8_HighPresentIsHigh ==
  \A c \in Calls :
    (pc[c] = "done" /\ HighPresent(c) /\ ~CriticalPresent(c)) =>
      context[c].stats.risk_level = "High"

\* C8 as amended: with at least one HIGH finding and no CRITICAL finding,
\* risk_level is "High" while the rounded score is below 70 and "Critical"
\* from 70.0 on; when every finding is HIGH the score is 70.0.
C8_HighPresentBelowSeventy ==
  \A c \in Calls :
    (pc[c] = "done" /\ HighPresent(c) /\ ~CriticalPresent(c)) =>
      /\ context[c].stats.risk_level =
           IF context[c].stats.risk_score >= 700 THEN "Critical" ELSE "High"
      /\ OnlyHigh(c) => context[c].stats.risk_score = 700

\* C8 witness: HIGH next to lesser findings, a score under 50, level "High"
C8_Witness ==
  \E c \in Calls :
    /\ pc[c] = "done"
    /\ HighPresent(c) /\ ~CriticalPresent(c) /\ ~OnlyHigh(c)
    /\ context[c].stats.risk_score < 500
    /\ context[c].stats.risk_level = "High"

\* the stored text and the normalized value of the two list-valued fields
ListFields(c) ==
  { [raw |-> store[report_id[c]].project.scope, out |-> context[c].project.scope],
    [raw |-> store[report_id[c]].project.complianceFrameworks,
     out |-> context[c].project.compliance_frameworks] }

\* the segments of a text between newlines and commas, trimmed, the empty
\* ones dropped: read left to right, cur being the segment under way
Segments(raw) ==
  LET Flush(st) == IF Strip(st.cur) = <<>> THEN st.out ELSE Append(st.out, Strip(st.cur))
      F[k \in 0..Len(raw)] ==
        IF k = 0 THEN [cur |-> <<>>, out |-> <<>>]
        ELSE IF raw[k] \in {",", "\n"}
             THEN [cur |-> <<>>, out |-> Flush(F[k - 1])]
             ELSE [cur |-> Append(F[k - 1].cur, raw[k]), out |-> F[k - 1].out]
  IN  Flush(F[Len(raw)])

IsListOfStrings(v) ==
  v.type = "list" /\ \A k \in 1..Len(v.items) : v.items[k].type = "str"

\* C9: the normalized scope and compliance_frameworks are sequences of
\* strings: the empty sequence for an empty field, and the split of the raw
\* text, not the decoded value, when the text is JSON for a non-list.
C9_NormalizedIsListOfStrings ==
  \A c \in Calls :
    pc[c] = "done" =>
      \A f \in ListFields(c) :
        /\ IsListOfStrings(f.out)
        /\ f.raw = <<>> => f.out.items = <<>>
        /\ (JsonLoads(f.raw).ok /\ JsonLoads(f.raw).val.type # "list") =>
             f.out = StrList(Segments(f.raw))

\* C10: a stored scope or compliance text that is not JSON is normalized to
\* its segments between newlines and commas, trimmed, the empty ones
\* dropped, in their order.
C10_PlainTextIsSplit ==
  \A c \in Calls :
    pc[c] = "done" =>
      \A f \in ListFields(c) :
        (f.raw # <<>> /\ ~JsonLoads(f.raw).ok) => f.out = StrList(Segments(f.raw))

----------------------------------------------------------------------------
(* Evidence URLs *)

\* s without the slashes at its end
RECURSIVE C11_NoTrailingSlash(_)
C11_NoTrailingSlash(s) ==
  IF s # <<>> /\ s[Len(s)] = "/" THEN C11_NoTrailingSlash(SubSeq(s, 1, Len(s) - 1)) ELSE s

\* s without the slashes at its start
RECURSIVE C11_NoLeadingSlash(_)
C11_NoLeadingSlash(s) ==
  IF s # <<>> /\ Head(s) = "/" THEN C11_NoLeadingSlash(Tail(s)) ELSE s

\* the stored finding a finding context was built from
StoredFinding(c, id) == Fetched(c)[FetchPosition(c, id)]

\* C11: in a returned context every evidence item's url is the stored path
\* itself when the path begins with http (https included), the backend
\* origin followed by the path with exactly one "/" between the last
\* character of the origin that is no slash and the first character of the
\* path that is no slash when the path begins with "/", and the stored path
\* itself otherwise.
C11_EvidenceUrlResolved ==
  \A c \in Calls :
    pc[c] = "done" =>
      \A k \in 1..Len(context[c].findings) :
        LET out == context[c].findings[k].evidence_items
            stored == StoredFinding(c, context[c].findings[k].id).evidences
        IN  /\ Len(out) = Len(stored)
            /\ \A j \in 1..Len(out) :
                 LET raw == stored[j].path
                 IN  IF StartsWith(raw, <<"h","t","t","p">>) THEN out[j].url = raw
                     ELSE IF StartsWith(raw, <<"/">>)
                     THEN out[j].url = C11_NoTrailingSlash(base_url) \o <<"/">>
                                         \o C11_NoLeadingSlash(raw)
                     ELSE out[j].url = raw

----------------------------------------------------------------------------
(* The logo *)

\* context_to_dict has been applied to the context invocation c returned
Flattened(c) == pc[c] = "done" /\ steps[c][Len(steps[c])] = "context_to_dict"

\* the GET of the logo ended in an exception or in a status other than 200
LogoFailed(c) ==
  \/ logo_response[c].kind = "exception"
  \/ logo_response[c].kind = "response" /\ logo_response[c].status # 200

LogoSucceeded(c) ==
  logo_response[c].kind = "response" /\ logo_response[c].status = 200

----------------------------------------------------------------------------
(* The narrative *)

ExecutiveSummaryKey ==
  <<"e","x","e","c","u","t","i","v","e","S","u","m","m","a","r","y">>

\* the decoded payload is an object with the executiveSummary key
C13_HasSummaryKey(raw) ==
  LET r == JsonLoads(raw)
  IN  /\ r.ok /\ r.val.type = "obj"
      /\ \E k \in 1..Len(r.val.items) : r.val.items[k].key = ExecutiveSummaryKey

\* C13: for a stored narrative payload the returned executive summary is
\* the rendering of the executiveSummary value (nothing when that value is
\* empty) if the payload is valid JSON, an object, and has that key; in
\* every other case (invalid JSON, JSON that is no object, an object
\* without the key) it is the sanitized rendering of the whole raw payload,
\* and its plain form the plain rendering of the whole raw payload.
C13_NarrativeTwoWays ==
  \A c \in Calls :
    pc[c] = "done" /\ store[report_id[c]].htmlContent # <<>> =>
      LET raw == store[report_id[c]].htmlContent
          value == dict_get(JsonLoads(raw).val, ExecutiveSummaryKey, JNull)
      IN  IF C13_HasSummaryKey(raw)
          THEN \/ context[c].executive_summary_html = to_html(value)
               \/ ~Truthy(value) /\ context[c].executive_summary_html = EmptyText
          ELSE /\ context[c].executive_summary_html = sanitize_html(JStr(raw))
               /\ context[c].executive_summary_plain = to_plain(JStr(raw))

----------------------------------------------------------------------------
(* Affected assets *)

\* the stored text is there and is no JSON
C14_Malformed(raw) == raw # <<>> /\ ~JsonLoads(raw).ok

\* C14: when the affected_assets_json of a fetched finding is no JSON,
\* nothing is raised, and in the returned context that finding's
\* affected_assets_html is the plain-to-HTML rendering of the raw text and
\* its affected_assets_count is the stored count when that is set and 0
\* otherwise.
C14_MalformedAssetsFallBack ==
  \A c \in Calls :
    report_id[c] \in DOMAIN store =>
      \A k \in 1..Len(Fetched(c)) :
        C14_Malformed(Fetched(c)[k].affectedAssetsJson) =>
          /\ pc[c] # "raised" /\ error[c] = NoError
          /\ pc[c] = "done" =>
               \E i \in 1..Len(context[c].findings) :
                 LET out == context[c].findings[i]
                 IN  /\ out.id = Fetched(c)[k].id
                     /\ out.affected_assets_html = to_html(JStr(Fetched(c)[k].affectedAssetsJson))
                     /\ out.affected_assets_count =
                          IF Fetched(c)[k].affectedAssetsCount # 0
                          THEN Fetched(c)[k].affectedAssetsCount ELSE 0

\* a context returned for a finding with truncated JSON and no stored count
C14_Witness ==
  \E c \in Calls :
    /\ pc[c] = "done"
    /\ \E k \in 1..Len(Fetched(c)) :
         /\ Fetched(c)[k].affectedAssetsJson = TxtTruncated
         /\ Fetched(c)[k].affectedAssetsCount = 0

----------------------------------------------------------------------------
(* Upstream data *)

\* C15: no step of build_context writes to the store, and no step after
\* the fetch changes the fetched record, the content and the order of its
\* project's findings list included.
C15_UpstreamUnchanged ==
  [][ /\ store' = store
      /\ \A c \in Calls :
           pc[c] \notin {"idle", "find_unique"} => report'[c] = report[c] ]_vars

----------------------------------------------------------------------------
(* Concurrent invocations *)

\* the context build_context returns for invocation c when it runs alone on
\* its stored report and its logo fetch ends the way it did
RunAlone(c) ==
  LET snapshot == store[report_id[c]]
      url == snapshot.project.client.websiteUrl
      findings == sort_findings(snapshot.project.findings)
      contexts == [k \in 1..Len(findings) |-> build_finding_context(findings[k], k)]
      summary == parse_narrative(snapshot.htmlContent)
  IN  [ report_id |-> snapshot.id,
        client |-> client_context_of(snapshot.project.client,
                     IF logo_is_fetched(url) THEN logo_of_response(url, logo_response[c])
                     ELSE NoLogo),
        project |-> build_project_context(snapshot.project),
        findings |-> contexts,
        stats |-> calculate_stats(findings),
        executive_summary_html |-> summary.html,
        executive_summary_plain |-> summary.plain,
        findings_by_severity |-> group_findings_by_severity(contexts) ]

\* C16: whatever the interleaving of the invocations at their suspension
\* points, the context an invocation returns is the one it returns when run
\* alone on its stored report; its findings are findings of its own report
\* only, each of them once, with severity ranks non-decreasing.
C16_ConcurrentRunsIsolated ==
  \A c \in Calls :
    pc[c] = "done" =>
      LET out == context[c].findings
      IN  /\ context[c] = RunAlone(c)
          /\ Len(out) = Len(Fetched(c))
          /\ \A k \in 1..Len(out) : \E i \in 1..Len(Fetched(c)) : Fetched(c)[i].id = out[k].id
          /\ \A k \in 1..Len(Fetched(c)) : \E i \in 1..Len(out) : out[i].id = Fetched(c)[k].id
          /\ \A d \in Calls \ {c} :
               report_id[d] \in DOMAIN store /\ report_id[d] # report_id[c] =>
                 \A k \in 1..Len(out) : \A i \in 1..Len(Fetched(d)) :
                   Fetched(d)[i].id # out[k].id
          /\ \A i, j \in 1..Len(out) :
               i < j => C3_Rank(StoredSeverity(c, out[i].id)) <= C3_Rank(StoredSeverity(c, out[j].id))

\* one invocation has returned its two findings while the other, called
\* for another report at the same time, is suspended at its logo fetch
C16_Witness ==
  \E c, d \in Calls :
    /\ pc[c] = "done" /\ pc[d] = "logo"
    /\ report_id[c] # report_id[d]
    /\ Len(context[c].findings) = 2
    /\ Len(report[d].project.findings) = 2

----------------------------------------------------------------------------
(* The flattened mapping *)

\* the mapping m is the reshape of the context ctx that C17 describes
C17_Reshaped(m, ctx) ==
  /\ Len(m.findings) = Len(ctx.findings)
  /\ \A k \in 1..Len(ctx.findings) :
       /\ m.findings[k].id = ctx.findings[k].id
       /\ m.findings[k].finding_id =
            IF ctx.findings[k].reference_id # <<>> THEN ctx.findings[k].reference_id
            ELSE ctx.findings[k].id
       /\ m.findings[k].cvss =
            IF ctx.findings[k].cvss_vector # <<>> THEN ctx.findings[k].cvss_vector
            ELSE <<"N","/","A">>
  /\ m.stats.total = ctx.stats.total_findings
  /\ m.stats.critical = ctx.stats.critical_count
  /\ m.stats.high = ctx.stats.high_count
  /\ m.stats.medium = ctx.stats.medium_count
  /\ m.stats.low = ctx.stats.low_count
  /\ m.stats.info = ctx.stats.info_count

\* C17: a step that flattens a context reads nothing from the store and
\* sends no request (the only statement it adds to the log is
\* context_to_dict), leaves the store and the context as they were, and
\* yields a mapping whose findings are the context's findings in their
\* order, each with finding_id its reference_id (its id when the
\* reference_id is empty) and cvss its cvss_vector ("N/A" when that is
\* empty), and whose stats total, critical, high, medium, low and info are
\* the context's total_findings and five counts.
C17_PureReshape ==
  [][ \A c \in Calls :
        pc[c] = "done" /\ steps'[c] # steps[c] =>
          /\ steps'[c] = Append(steps[c], "context_to_dict")
          /\ store' = store
          /\ context'[c] = context[c]
          /\ C17_Reshaped(mapped'[c], context[c]) ]_vars

\* a flattened context with a finding that has no reference_id and one
\* that has no cvss_vector
C17_Witness ==
  \E c \in Calls :
    /\ Flattened(c)
    /\ \E k \in 1..Len(context[c].findings) : context[c].findings[k].reference_id = <<>>
    /\ \E k \in 1..Len(context[c].findings) : context[c].findings[k].cvss_vector = <<>>
    /\ \E k \in 1..Len(context[c].findings) : context[c].findings[k].reference_id # <<>>

----------------------------------------------------------------------------
(* The percentage base *)

\* the five percentages of a ReportStats, by count key
C18_Percent(st) ==
  (CRITICAL :> st.critical_percent) @@ (HIGH :> st.high_percent)
  @@ (MEDIUM :> st.medium_percent) @@ (LOW :> st.low_percent) @@ (INFO :> st.info_percent)

C18_Count(st) ==
  (CRITICAL :> st.critical_count) @@ (HIGH :> st.high_count)
  @@ (MEDIUM :> st.medium_count) @@ (LOW :> st.low_count) @@ (INFO :> st.info_count)

\* p (in tenths) is count / base * 100 rounded to one decimal
C18_IsRounded(p, count, base) ==
  IF base = 0 THEN p = 0
  ELSE /\ 2 * (p * base - 1000 * count) <= base
       /\ 2 * (1000 * count - p * base) <= base

----------------------------------------------------------------------------
(* INFORMATIONAL and INFO *)

\* C19: for every fetched finding stored as INFORMATIONAL (any letter
\* case), the returned findings sequence, the stats and every
\* findings_by_severity bucket are, finding for finding, those build_context
\* yields for the same fetch result with that finding stored as INFO.
C19_InformationalIsInfo ==
  \A c \in Calls :
    pc[c] = "done" =>
      \A k \in 1..Len(Fetched(c)) :
        Upper(Fetched(c)[k].severity) = INFORMATIONAL =>
          LET other == sort_findings([Fetched(c) EXCEPT ![k].severity = INFO])
              contexts == [i \in 1..Len(other) |-> build_finding_context(other[i], i)]
              buckets == group_findings_by_severity(contexts)
          IN  /\ Ids(context[c].findings) = Ids(other)
              /\ context[c].stats = calculate_stats(other)
              /\ \A key \in GroupKeys :
                   Ids(context[c].findings_by_severity[key]) = Ids(buckets[key])

----------------------------------------------------------------------------
(* A missing severity *)

\* C20: in the returned findings sequence a finding stored without a
\* severity stands after every finding stored as CRITICAL or HIGH and
\* before every finding stored as LOW or INFO (any letter case).
C20_MissingSortsAsMedium ==
  \A c \in Calls :
    pc[c] = "done" =>
      LET out == context[c].findings
          sev(k) == Upper(StoredSeverity(c, out[k].id))
      IN  \A i, j \in 1..Len(out) :
            /\ sev(i) \in {CRITICAL, HIGH} /\ StoredSeverity(c, out[j].id) = None => i < j
            /\ StoredSeverity(c, out[i].id) = None /\ sev(j) \in {LOW, INFO} => i < j

----------------------------------------------------------------------------
(* References *)

\* C21: in a returned context the references of every finding are a list:
\* the empty list when nothing is stored, the decoded list when a JSON
\* array is stored, the one-element list of the string when a JSON string
\* is stored, and the one-element list of the raw text when the stored text
\* is no JSON.
C21_ReferencesAreSequence ==
  \A c \in Calls :
    pc[c] = "done" =>
      \A k \in 1..Len(context[c].findings) :
        LET out == context[c].findings[k].references
            raw == StoredFinding(c, context[c].findings[k].id).references
            r == JsonLoads(raw)
        IN  /\ out.type = "list"
            /\ raw = <<>> => out = JList(<<>>)
            /\ raw # <<>> /\ ~r.ok => out = JList(<<JStr(raw)>>)
            /\ raw # <<>> /\ r.ok /\ r.val.type = "list" => out = r.val
            /\ raw # <<>> /\ r.ok /\ r.val.type = "str" => out = JList(<<r.val>>)

----------------------------------------------------------------------------
(* Evidence shapes *)

\* the caption an element carries, the default when it carries none
C22_Caption(item) == IF item.caption # <<>> THEN item.caption ELSE DefaultCaption

\* C22: when every evidence element of the fetched findings is a mapping or
\* a stored record with a filepath, nothing is raised, and in the returned
\* context every entry has the url resolved from the element's url key
\* (mapping) or filepath (record) and the caption the element carries,
\* "Evidence" when it carries none.
C22_CaptionFromItem ==
  \A c \in Calls :
    ( /\ report_id[c] \in DOMAIN store
      /\ \A k \in 1..Len(Fetched(c)) : \A j \in 1..Len(Fetched(c)[k].evidences) :
           /\ Fetched(c)[k].evidences[j].kind \in {"dict", "Evidence"}
           /\ ~Fetched(c)[k].evidences[j].path_is_none ) =>
      /\ pc[c] # "raised"
      /\ pc[c] = "done" =>
           \A k \in 1..Len(context[c].findings) :
             LET out == context[c].findings[k].evidence_items
                 stored == StoredFinding(c, context[c].findings[k].id).evidences
             IN  /\ Len(out) = Len(stored)
                 /\ \A j \in 1..Len(out) :
                      /\ out[j].caption = C22_Caption(stored[j])
                      /\ out[j].url = resolve_url(stored[j].path, base_url)

\* C23: whatever the shapes of the evidence elements of the fetched
\* findings, nothing is raised, and in the returned context every finding
\* has one entry per element.
C23_EvidenceNeverRaises ==
  \A c \in Calls :
    report_id[c] \in DOMAIN store =>
      /\ pc[c] # "raised"
      /\ pc[c] = "done" =>
           \A k \in 1..Len(context[c].findings) :
             Len(context[c].findings[k].evidence_items)
               = Len(StoredFinding(c, context[c].findings[k].id).evidences)

----------------------------------------------------------------------------
(* The outbound logo fetch *)

\* the places of a statement in the log of invocation c
C24_Places(c, name) == {k \in 1..Len(steps[c]) : steps[c][k] = name}

\* the logo source is a text that begins with http:// or https://
C24_HasHttpScheme(url) ==
  \/ Len(url) >= 7 /\ SubSeq(url, 1, 7) = <<"h","t","t","p",":","/","/">>
  \/ Len(url) >= 8 /\ SubSeq(url, 1, 8) = <<"h","t","t","p","s",":","/","/">>

\* C24: an invocation sends at most one GET for the logo; it sends it only
\* for a report the store holds and after find_unique; it sends none when
\* the client's logo source is empty or begins with neither http:// nor
\* https://, and the returned context then has no logo_base64.
C24_AtMostOneLogoFetch ==
  \A c \in Calls :
    /\ Cardinality(C24_Places(c, "http_get")) <= 1
    /\ \A k \in C24_Places(c, "http_get") :
         /\ report_id[c] \in DOMAIN store
         /\ \E j \in C24_Places(c, "find_unique") : j < k
    /\ report_id[c] \in DOMAIN store
       /\ ~C24_HasHttpScheme(store[report_id[c]].project.client.websiteUrl) =>
         /\ C24_Places(c, "http_get") = {}
         /\ logo_response[c] = NoResponse
         /\ pc[c] = "done" => ~context[c].client.logo_base64.present

\* a context returned for a client whose logo source is a local path
C24_Witness ==
  \E c \in Calls :
    /\ pc[c] = "done"
    /\ store[report_id[c]].project.client.websiteUrl = TxtLocalLogo
    /\ ~context[c].client.logo_base64.present

----------------------------------------------------------------------------
(* A failing rich-text collaborator *)

\* C25: when the rich-text collaborator fails on the rendering of a field,
\* an invocation for a stored report raises nothing, and the context it
\* returns has the empty string for the failed rendering (the project
\* description, the executive summary) and one finding context per finding.
C25_RenderingFailureIsEmpty ==
  \A c \in Calls :
    report_id[c] \in DOMAIN store /\ rich_text.fails # "none" =>
      /\ pc[c] # "raised"
      /\ pc[c] = "done" =>
           /\ Len(context[c].findings) = Len(Fetched(c))
           /\ rich_text.fails = "project" => context[c].project.description_html = EmptyText
           /\ rich_text.fails = "narrative" /\ store[report_id[c]].htmlContent # <<>> =>
                context[c].executive_summary_html = EmptyText

----------------------------------------------------------------------------
(* Reference codes *)

\* "FIND-" and i in three digits, for i below 1000
C26_Code(i) ==
  LET digit(n) == <<"0","1","2","3","4","5","6","7","8","9">>[n + 1]
  IN  <<"F","I","N","D","-", digit((i \div 100) % 10), digit((i \div 10) % 10), digit(i % 10)>>

\* C26: the finding context at place i of a returned findings sequence has
\* the stored reference code of its finding when there is one, and else
\* "FIND-" followed by i in three digits, i being the place in the returned
\* (sorted) sequence.
C26_ReferenceByPosition ==
  \A c \in Calls :
    pc[c] = "done" =>
      \A i \in 1..Len(context[c].findings) :
        LET stored == StoredFinding(c, context[c].findings[i].id)
        IN  context[c].findings[i].reference_id =
              IF stored.referenceId # <<>> THEN stored.referenceId ELSE C26_Code(i)

\* a returned sequence with a finding that has a stored code, one without
\* that the sort has moved, and one without at place 10
C26_Witness ==
  \E c \in Calls :
    /\ pc[c] = "done"
    /\ Len(context[c].findings) = 10
    /\ \E i \in 1..10 : StoredFinding(c, context[c].findings[i].id).referenceId # <<>>
    /\ \E i \in 1..10 :
         /\ StoredFinding(c, context[c].findings[i].id).referenceId = <<>>
         /\ FetchPosition(c, context[c].findings[i].id) # i
    /\ StoredFinding(c, context[c].findings[10].id).referenceId = <<>>

----------------------------------------------------------------------------
(* Buckets and counts *)

\* C27: in a returned context each findings_by_severity bucket has as many
\* findings as the stats count of its severity.
C27_BucketSizesAreCounts ==
  \A c \in Calls :
    pc[c] = "done" =>
      LET buckets == context[c].findings_by_severity
          st == context[c].stats
      IN  /\ Len(buckets[critical]) = st.critical_count
          /\ Len(buckets[high]) = st.high_count
          /\ Len(buckets[medium]) = st.medium_count
          /\ Len(buckets[low]) = st.low_count
          /\ Len(buckets[info]) = st.info_count

\* a context returned for a finding without severity, an INFORMATIONAL one
\* and one of an unknown severity
C27_Witness ==
  \E c \in Calls :
    /\ pc[c] = "done"
    /\ \E k \in 1..Len(Fetched(c)) : Fetched(c)[k].severity = None
    /\ \E k \in 1..Len(Fetched(c)) : Fetched(c)[k].severity = INFORMATIONAL
    /\ \E k \in 1..Len(Fetched(c)) : Fetched(c)[k].severity = <<"U","R","G","E","N","T">>
    /\ Len(context[c].findings_by_severity[medium]) = 1
    /\ Len(context[c].findings_by_severity[info]) = 1

----------------------------------------------------------------------------
(* The risk level and the thresholds *)

\* a fetched finding counted as MEDIUM: stored so, or without severity
MediumPresent(c) ==
  \E k \in 1..Len(Fetched(c)) :
    Fetched(c)[k].severity = None \/ Upper(Fetched(c)[k].severity) = MEDIUM

\* C28 as claimed: risk_level is "Critical" exactly when a CRITICAL finding
\* is present or the set is non-empty and all HIGH; "High" exactly when
\* there is no CRITICAL finding, a HIGH one and one that is not HIGH;
\* "Medium" exactly when there is no CRITICAL or HIGH finding and a MEDIUM
\* (or missing-severity) one; "Low" otherwise.
C28_LevelFromSeverities ==
  \A c \in Calls :
    pc[c] = "done" =>
      context[c].stats.risk_level =
        IF CriticalPresent(c) \/ (Len(Fetched(c)) > 0 /\ OnlyHigh(c)) THEN "Critical"
        ELSE IF HighPresent(c) THEN "High"
        ELSE IF MediumPresent(c) THEN "Medium"
        ELSE "Low"

\* C28 as amended: risk_level is "Critical" exactly when a CRITICAL finding
\* is present or the rounded risk score is at least 70.0, which without a
\* CRITICAL finding needs a HIGH one and holds when all findings are HIGH;
\* below that it is "High" exactly when a HIGH finding is present, else
\* "Medium" exactly when a MEDIUM (or missing-severity) finding is present,
\* else "Low": the tests score >= 50 and score >= 25 never decide.
C28_LevelFromSeveritiesAndScore ==
  \A c \in Calls :
    pc[c] = "done" =>
      LET st == context[c].stats
      IN  /\ st.risk_level =
               IF CriticalPresent(c) \/ st.risk_score >= 700 THEN "Critical"
               ELSE IF HighPresent(c) THEN "High"
               ELSE IF MediumPresent(c) THEN "Medium"
               ELSE "Low"
          /\ st.risk_score >= 700 /\ ~CriticalPresent(c) => HighPresent(c)
          /\ Len(Fetched(c)) > 0 /\ OnlyHigh(c) => st.risk_score = 700

\* a context returned for a large set of HIGH findings and one MEDIUM
\* finding: the score is 70.0 and the level "Critical"
C28_Witness ==
  \E c \in Calls :
    /\ pc[c] = "done"
    /\ ~CriticalPresent(c) /\ HighPresent(c) /\ ~OnlyHigh(c)
    /\ context[c].stats.risk_score = 700
    /\ context[c].stats.risk_level = "Critical"

----------------------------------------------------------------------------
(* The range of the risk score *)

AllCritical(c) == \A k \in 1..Len(Fetched(c)) : Upper(Fetched(c)[k].severity) = CRITICAL

\* every fetched finding has a stored severity of weight 0: INFO,
\* INFORMATIONAL or a name outside the table
AllWeightless(c) ==
  \A k \in 1..Len(Fetched(c)) :
    /\ Fetched(c)[k].severity # None
    /\ Upper(Fetched(c)[k].severity) \notin {CRITICAL, HIGH, MEDIUM, LOW}

\* the risk score of the fetched findings and one more finding, of a
\* severity outside the table
ScoreWithUnrecognized(c) ==
  calculate_stats(Append(Fetched(c),
                         PlainFinding(<<"x">>, <<"U","R","G","E","N","T">>))).risk_score

C29_InRange(c) ==
  /\ context[c].stats.risk_score >= 0
  /\ context[c].stats.risk_score <= 1000
  /\ ScoreWithUnrecognized(c) <= context[c].stats.risk_score

\* C29 as claimed: risk_score lies between 0 and 100; it is 100 only when
\* the set is non-empty and all CRITICAL, and 0 exactly when the set is empty
\* or every finding is INFO, INFORMATIONAL or unrecognized; one more
\* unrecognized finding never increases it.
C29_ScoreExtremes ==
  \A c \in Calls :
    pc[c] = "done" =>
      /\ C29_InRange(c)
      /\ context[c].stats.risk_score = 1000 => (Len(Fetched(c)) > 0 /\ AllCritical(c))
      /\ context[c].stats.risk_score = 0 <=> AllWeightless(c)

\* C29 as amended: risk_score lies between 0 and 100 and one more
\* unrecognized finding never increases it; it is 100 when the set is
\* non-empty and all CRITICAL and 0 when the set is empty or all INFO,
\* INFORMATIONAL or unrecognized; any other set scoring 100 has 600 findings
\* or more and any other set scoring 0 has 200 findings or more, the exact
\* score being rounded to one decimal.
C29_ScoreExtremesRounded ==
  \A c \in Calls :
    pc[c] = "done" =>
      /\ C29_InRange(c)
      /\ (Len(Fetched(c)) > 0 /\ AllCritical(c)) => context[c].stats.risk_score = 1000
      /\ AllWeightless(c) => context[c].stats.risk_score = 0
      /\ (context[c].stats.risk_score = 1000 /\ Len(Fetched(c)) < 600)
           => (Len(Fetched(c)) > 0 /\ AllCritical(c))
      /\ (context[c].stats.risk_score = 0 /\ Len(Fetched(c)) < 200) => AllWeightless(c)

\* a context returned for a large set of CRITICAL findings and one HIGH
\* finding, scored 100.0
C29_Witness ==
  \E c \in Calls :
    /\ pc[c] = "done"
    /\ ~AllCritical(c)
    /\ context[c].stats.risk_score = 1000

----------------------------------------------------------------------------
(* The buckets as parts of the findings sequence *)

\* the place in the context's findings of the finding with this id
C30_Place(ctx, id) == CHOOSE k \in 1..Len(ctx.findings) : ctx.findings[k].id = id

\* the ids of the findings in the bucket under key
C30_BucketIds(ctx, key) ==
  {ctx.findings_by_severity[key][k].id : k \in 1..Len(ctx.findings_by_severity[key])}

\* the finding is in none of the five buckets
C30_Dropped(ctx, id) == \A key \in GroupKeys : id \notin C30_BucketIds(ctx, key)

\* C30: in a returned context the five buckets are pairwise disjoint, each
\* is a subsequence of the findings sequence in the same order, and a
\* finding is in no bucket exactly when its stored severity is non-empty and,
\* upper-cased, none of CRITICAL, HIGH, MEDIUM, LOW, INFO, INFORMATIONAL.
C30_BucketsPartitionInOrder ==
  \A c \in Calls :
    pc[c] = "done" =>
      LET ctx == context[c]
      IN  /\ \A a, b \in GroupKeys :
               a # b => C30_BucketIds(ctx, a) \cap C30_BucketIds(ctx, b) = {}
          /\ \A key \in GroupKeys :
               LET bucket == ctx.findings_by_severity[key]
               IN  /\ \A k \in 1..Len(bucket) :
                        /\ \E i \in 1..Len(ctx.findings) : ctx.findings[i].id = bucket[k].id
                        /\ bucket[k] = ctx.findings[C30_Place(ctx, bucket[k].id)]
                   /\ \A i, j \in 1..Len(bucket) :
                        i < j => C30_Place(ctx, bucket[i].id) < C30_Place(ctx, bucket[j].id)
          /\ \A k \in 1..Len(ctx.findings) :
               LET stored == StoredSeverity(c, ctx.findings[k].id)
               IN  C30_Dropped(ctx, ctx.findings[k].id)
                     <=> (/\ stored # <<>>
                          /\ Upper(stored) \notin
                               {CRITICAL, HIGH, MEDIUM, LOW, INFO, INFORMATIONAL})

\* a returned context with two findings in one bucket, a finding without
\* stored severity in a bucket and a finding in none
C30_Witness ==
  \E c \in Calls :
    /\ pc[c] = "done"
    /\ \E key \in GroupKeys : Len(context[c].findings_by_severity[key]) >= 2
    /\ \E k \in 1..Len(context[c].findings) :
         C30_Dropped(context[c], context[c].findings[k].id)
    /\ \E k \in 1..Len(context[c].findings) :
         /\ StoredSeverity(c, context[c].findings[k].id) = None
         /\ ~C30_Dropped(context[c], context[c].findings[k].id)

====
